---- MODULE Spec2Model ----
(***************************************************************************)
(* Model of app.py: the reference set builder (load_database_set, run at   *)
(* module import) and the row classifier (upload_file).                    *)
(*                                                                         *)
(* A Python str is a sequence of one-character strings.  A cell value (or  *)
(* anything else handed to normalize_text) is a record [t, s]:             *)
(*   t = "str"    a str with characters s                                  *)
(*   t = "nan"    the float NaN pandas stores for a missing cell           *)
(*   t = "none"   None                                                     *)
(*   t = "series" a pandas Series: what row[label] returns when the label  *)
(*                occurs more than once in the row's index                 *)
(***************************************************************************)
EXTENDS Integers, Sequences, FiniteSets, TLC

VARIABLES phase, render, folder, disk,
          imneo_names, imneo_companies, xclient_names, xclient_companies,
          request, response, results, colors, text, normalized

vars == <<phase, render, folder, disk,
          imneo_names, imneo_companies, xclient_names, xclient_companies,
          request, response, results, colors, text, normalized>>

refs == <<imneo_names, imneo_companies, xclient_names, xclient_companies>>

(***************************************************************************)
(* Bounds                                                                  *)
(***************************************************************************)
MaxLen == 4          \* longest str handed to normalize_text in SpecNorm
MaxRows == 2         \* most data rows in an uploaded table
MaxPresent == 2      \* most reference files present in the folder

(***************************************************************************)
(* Python str operations                                                   *)
(***************************************************************************)
UpperChars == <<"A","B","C","D","E","F","G","H","I","J","K","L","M",
                "N","O","P","Q","R","S","T","U","V","W","X","Y","Z">>
LowerChars == <<"a","b","c","d","e","f","g","h","i","j","k","l","m",
                "n","o","p","q","r","s","t","u","v","w","x","y","z">>

\* the ASCII characters str.strip() removes: space, \t, \n, \r, \f, and the
\* control characters 0x0B, 0x1C, 0x1D, 0x1E, 0x1F (written raw).  str.strip()
\* also removes the non-ASCII Unicode spaces (U+0085, U+00A0, U+2028, ...),
\* which are outside the characters of this model.
Whitespace == {" ", "\t", "\n", "\r", "\f", "", "", "", "", ""}

UpperSet == {UpperChars[i] : i \in 1..Len(UpperChars)}
LowerOf == [c \in UpperSet |->
              LowerChars[CHOOSE i \in 1..Len(UpperChars) : UpperChars[i] = c]]

LowerChar(c) == IF c \in UpperSet THEN LowerOf[c] ELSE c

\* str.lower()
Lower(s) == [i \in 1..Len(s) |-> LowerChar(s[i])]

\* str.strip()
Strip(s) ==
    LET keep == {i \in 1..Len(s) : s[i] \notin Whitespace}
    IN  IF keep = {} THEN <<>>
        ELSE LET lo == CHOOSE i \in keep : \A j \in keep : i <= j
                 hi == CHOOSE i \in keep : \A j \in keep : j <= i
             IN  SubSeq(s, lo, hi)

PyStr(s)  == [t |-> "str", s |-> s]
NaN       == [t |-> "nan", s |-> <<>>]
None      == [t |-> "none", s |-> <<>>]
Series    == [t |-> "series", s |-> <<>>]

\* str(x)
Str(x) == CASE x.t = "str"  -> x.s
            [] x.t = "nan"  -> <<"n","a","n">>
            [] x.t = "none" -> <<"N","o","n","e">>
            [] OTHER        -> <<>>

\* pd.isna(x) for a scalar
IsNa(x) == x.t \in {"nan", "none"}

\* normalize_text(x) raises: bool() of the Series pd.isna returns
NormalizeRaises(x) == x.t = "series"

normalize_text(x) ==
    IF IsNa(x) \/ x.t = "none" \/ Lower(Str(x)) = <<"n","a","n">>
    THEN <<>>
    ELSE Strip(Lower(Str(x)))

(***************************************************************************)
(* The header vocabulary of app.py, as Python strs                         *)
(***************************************************************************)
s_first_name == <<"f","i","r","s","t"," ","n","a","m","e">>
s_voor_naam == <<"v","o","o","r"," ","n","a","a","m">>
s_naam == <<"n","a","a","m">>
s_last_name == <<"l","a","s","t"," ","n","a","m","e">>
s_achternaam == <<"a","c","h","t","e","r","n","a","a","m">>
s_company_name == <<"c","o","m","p","a","n","y"," ","n","a","m","e">>
s_company == <<"c","o","m","p","a","n","y">>
s_huidig_bedrijf == <<"h","u","i","d","i","g"," ","b","e","d","r","i","j","f">>
s_currrent_company == <<"c","u","r","r","r","e","n","t"," ","c","o","m","p","a","n","y">>
s_current_company == <<"c","u","r","r","e","n","t"," ","c","o","m","p","a","n","y">>
s_company_table_data == <<"c","o","m","p","a","n","y"," ","t","a","b","l","e"," ","d","a","t","a">>
s_name == <<"n","a","m","e">>

(***************************************************************************)
(* Raw headers and cell texts the bounded inputs are built from            *)
(***************************************************************************)
h_First_Name == <<"F","i","r","s","t"," ","N","a","m","e">>
h_Last_Name == <<"L","a","s","t"," ","N","a","m","e">>
h_Company == <<"C","o","m","p","a","n","y">>
h_company_sp == <<"c","o","m","p","a","n","y"," ">>
h_Naam == <<"N","a","a","m">>
h_naam == <<"n","a","a","m">>
h_Achternaam == <<" ","A","c","h","t","e","r","n","a","a","m">>
h_Huidig_Bedrijf == <<"H","u","i","d","i","g"," ","B","e","d","r","i","j","f">>
h_Email == <<"E","m","a","i","l">>
h_Phone == <<"P","h","o","n","e">>
c_Jane == <<" ","J","a","n","e">>
c_DOE == <<"D","O","E">>
c_Bob == <<"B","o","b">>
c_Smith == <<"S","m","i","t","h">>
c_ACME == <<"A","C","M","E"," ">>
c_Acme == <<"A","c","m","e">>
c_Zed == <<"Z","e","d">>
c_Al == <<"A","l">>
c_jane == <<"J","a","n","e">>
c_Acme_vt == <<"","A","c","m","e","">>

(***************************************************************************)
(* Configuration                                                           *)
(***************************************************************************)
IMNEO_FILES == <<"imneo.csv", "imneo1.xlsx", "imneo2.xlsx">>
XCLIENT_FILES == <<"xclient1.csv", "xclient2.csv">>

Filenames == {IMNEO_FILES[i] : i \in 1..Len(IMNEO_FILES)}
             \cup {XCLIENT_FILES[i] : i \in 1..Len(XCLIENT_FILES)}

\* filename.endswith('.csv'), for the file names the model uses
EndsWithCsv(filename) ==
    filename \in {"imneo.csv", "xclient1.csv", "xclient2.csv", "list.csv"}

Range(f) == {f[i] : i \in DOMAIN f}

(***************************************************************************)
(* Reference set builder.  A file on disk is [exists, parse, table]:       *)
(* parse is the reader that accepts its bytes ("utf-8", "latin1", "excel") *)
(* or "fail"; table is [columns, rows], rows positional.                   *)
(***************************************************************************)

\* the try/except around pd.read_csv / pd.read_excel ends in an exception
ReadRaises(filename, file) ==
    IF EndsWithCsv(filename)
    THEN /\ file.parse # "utf-8"      \* first read_csv raises
         /\ file.parse # "latin1"     \* and so does the retry
    ELSE file.parse # "excel"

\* df.columns = [str(c).lower().strip() for c in df.columns]
NormalizeColumns(columns) == [i \in 1..Len(columns) |-> Strip(Lower(columns[i]))]

\* label in row
InRow(columns, label) == \E i \in 1..Len(columns) : columns[i] = label

\* row[label]: the cell, or a Series when the label is not unique
RowGet(columns, row, label) ==
    LET idx == {i \in 1..Len(columns) : columns[i] = label}
    IN  IF Cardinality(idx) = 1 THEN row[CHOOSE i \in idx : TRUE] ELSE Series

\* the if/elif chain over one field's headers; "" when none is in the row
HeaderMapping(columns, row, aliases) ==
    LET present == {k \in 1..Len(aliases) : InRow(columns, aliases[k])}
    IN  IF present = {} THEN PyStr(<<>>)
        ELSE RowGet(columns, row,
                    aliases[CHOOSE k \in present : \A m \in present : k <= m])

LoadFirstAliases == <<s_first_name, s_voor_naam, s_naam>>
LoadLastAliases == <<s_last_name, s_achternaam>>
LoadCompanyAliases == <<s_company_name, s_company, s_huidig_bedrijf,
                        s_currrent_company, s_current_company,
                        s_company_table_data>>

\* f"{normalize_text(first)} {normalize_text(last)}".strip()
FullName(first, last) ==
    Strip(normalize_text(first) \o <<" ">> \o normalize_text(last))

\* the body of "for _, row in df.iterrows()" for one row; acc.raised records
\* an exception leaving the loop
LoadRow(columns, row, acc) ==
    LET first == HeaderMapping(columns, row, LoadFirstAliases)
        last == HeaderMapping(columns, row, LoadLastAliases)
        company == HeaderMapping(columns, row, LoadCompanyAliases)
    IN  IF NormalizeRaises(first) \/ NormalizeRaises(last)
        THEN [acc EXCEPT !.raised = TRUE]
        ELSE LET full_name == FullName(first, last)
                 names == IF full_name # <<>> THEN acc.names \cup {full_name}
                          ELSE acc.names
             IN  IF NormalizeRaises(company)
                 THEN [names |-> names, companies |-> acc.companies,
                       raised |-> TRUE]
                 ELSE LET norm_company == normalize_text(company)
                      IN  [names |-> names,
                           companies |-> IF norm_company # <<>>
                                         THEN acc.companies \cup {norm_company}
                                         ELSE acc.companies,
                           raised |-> FALSE]

RECURSIVE LoadRows(_, _, _, _)
LoadRows(columns, rows, i, acc) ==
    IF i > Len(rows) \/ acc.raised THEN acc
    ELSE LoadRows(columns, rows, i + 1, LoadRow(columns, rows[i], acc))

\* one iteration of "for filename in filenames"
LoadFile(filename, file, acc) ==
    IF ~file.exists THEN acc
    ELSE IF ReadRaises(filename, file) THEN acc
    ELSE LET done == LoadRows(NormalizeColumns(file.table.columns),
                              file.table.rows, 1,
                              [names |-> acc.names, companies |-> acc.companies,
                               raised |-> FALSE])
         IN  [names |-> done.names, companies |-> done.companies]

RECURSIVE LoadFiles(_, _, _, _)
LoadFiles(filenames, files, i, acc) ==
    IF i > Len(filenames) THEN acc
    ELSE LoadFiles(filenames, files, i + 1,
                   LoadFile(filenames[i], files[filenames[i]], acc))

load_database_set(filenames, folderExists, files) ==
    IF ~folderExists THEN [names |-> {}, companies |-> {}]
    ELSE LoadFiles(filenames, files, 1, [names |-> {}, companies |-> {}])

(***************************************************************************)
(* Row classifier.  A request is [hasFile, filename, file, mode]; file is  *)
(* [parse, table] as on disk.  A column is named by its position in        *)
(* df.columns (raw headers are unique in a parsed table); 0 stands for     *)
(* None.  mode is the form field, NoMode when the field is missing.        *)
(***************************************************************************)
\* the status texts and the header of the column they go to
s_Safe ==
    <<"S","a","f","e">>
s_IMNEO_Match ==
    <<"I","M","N","E","O"," ","M","a","t","c","h"," ","(","R","e","s","t","r","i","c","t","e","d",")">>
s_XClient_Candidate ==
    <<"X","-","C","l","i","e","n","t"," ","M","a","t","c","h"," ","(","C","a","n","d","i","d","a","t","e"," ","M","o","d","e",")">>
s_XClient_Relation ==
    <<"X","-","C","l","i","e","n","t"," ","M","a","t","c","h"," ","(","C","l","i","e","n","t","/","R","e","l","a","t","i","o","n",")">>
s_Check_Result == <<"C","h","e","c","k"," ","R","e","s","u","l","t">>

NoMode == "None"

\* the try/except around the upload's pd.read_csv / pd.read_excel raises
UploadReadRaises(filename, file) ==
    IF EndsWithCsv(filename)
    THEN /\ file.parse # "utf-8"
         /\ file.parse # "latin1"
    ELSE file.parse # "excel"

FirstNameAliases == {s_first_name, s_voor_naam, s_naam}
LastNameAliases == {s_last_name, s_achternaam}
possible_company_headers == <<s_company_table_data, s_company_name,
                              s_huidig_bedrijf, s_company, s_name>>

\* variant of NextColumnIn: the default of next() is the first column
NextColumnIn_default_first(columns, aliases) ==
    LET hits == {i \in 1..Len(columns) : Strip(Lower(columns[i])) \in aliases}
    IN  IF hits = {} THEN (IF Len(columns) > 0 THEN 1 ELSE 0)
        ELSE CHOOSE i \in hits : \A j \in hits : i <= j

\* next((c for c in df.columns if str(c).lower().strip() in aliases), None)
NextColumnIn(columns, aliases) ==
    LET hits == {i \in 1..Len(columns) : Strip(Lower(columns[i])) \in aliases}
    IN  IF hits = {} THEN 0
        ELSE CHOOSE i \in hits : \A j \in hits : i <= j

first_name_col(columns) == NextColumnIn(columns, FirstNameAliases)
last_name_col(columns) == NextColumnIn(columns, LastNameAliases)

\* the loop over possible_company_headers, stopping at the first match
company_col(columns) ==
    LET found == {k \in 1..Len(possible_company_headers) :
                    NextColumnIn(columns, {possible_company_headers[k]}) # 0}
    IN  IF found = {} THEN 0
        ELSE NextColumnIn(columns,
               {possible_company_headers[CHOOSE k \in found :
                                            \A m \in found : k <= m]})

\* first_name_col, last_name_col and company_col of a table
DetectColumns(columns) ==
    [first |-> first_name_col(columns), last |-> last_name_col(columns),
     company |-> company_col(columns)]

user_name(cols, row) ==
    IF cols.first # 0 /\ cols.last # 0
    THEN FullName(row[cols.first], row[cols.last])
    ELSE <<>>

user_company(cols, row) ==
    IF cols.company # 0 THEN normalize_text(row[cols.company]) ELSE <<>>

\* variant of is_imneo: "or" where the code has "and"
is_imneo_or(name, company, r) ==
    \/ name # <<>> \/ name \in r.imneo_names
    \/ company # <<>> \/ company \in r.imneo_companies

is_imneo(name, company, r) ==
    \/ name # <<>> /\ name \in r.imneo_names
    \/ company # <<>> /\ company \in r.imneo_companies

is_xclient(name, company, r) ==
    \/ name # <<>> /\ name \in r.xclient_names
    \/ company # <<>> /\ company \in r.xclient_companies

\* variant of Classify: the X-CLIENT test comes first
Classify_xclient_first(name, company, mode, r) ==
    IF is_xclient(name, company, r)
    THEN IF mode = "candidate"
         THEN [status |-> s_XClient_Candidate, color |-> "FF0000"]
         ELSE [status |-> s_XClient_Relation, color |-> "FFFF00"]
    ELSE IF is_imneo(name, company, r)
    THEN [status |-> s_IMNEO_Match, color |-> "FF0000"]
    ELSE [status |-> s_Safe, color |-> "FFFFFF"]

\* variant of Classify: every mode but 'client' is candidate mode
Classify_not_client(name, company, mode, r) ==
    IF is_imneo(name, company, r)
    THEN [status |-> s_IMNEO_Match, color |-> "FF0000"]
    ELSE IF is_xclient(name, company, r)
    THEN IF mode # "client"
         THEN [status |-> s_XClient_Candidate, color |-> "FF0000"]
         ELSE [status |-> s_XClient_Relation, color |-> "FFFF00"]
    ELSE [status |-> s_Safe, color |-> "FFFFFF"]

\* status and color_code of one row
Classify(name, company, mode, r) ==
    IF is_imneo(name, company, r)
    THEN [status |-> s_IMNEO_Match, color |-> "FF0000"]
    ELSE IF is_xclient(name, company, r)
    THEN IF mode = "candidate"
         THEN [status |-> s_XClient_Candidate, color |-> "FF0000"]
         ELSE [status |-> s_XClient_Relation, color |-> "FFFF00"]
    ELSE [status |-> s_Safe, color |-> "FFFFFF"]

ClassifyRow(cols, row, mode, r) ==
    Classify(user_name(cols, row), user_company(cols, row), mode, r)

\* results.append(status); colors.append(color_code)
AppendResult(acc, c) ==
    [results |-> Append(acc.results, c.status),
     colors |-> Append(acc.colors, c.color)]

\* "for index, row in df.iterrows()": results and colors, appended per row
RECURSIVE ClassifyRows(_, _, _, _, _, _)
ClassifyRows(cols, rows, i, mode, r, acc) ==
    IF i > Len(rows) THEN acc
    ELSE ClassifyRows(cols, rows, i + 1, mode, r,
                      AppendResult(acc, ClassifyRow(cols, rows[i], mode, r)))

\* the position of the column labelled exactly 'Check Result', 0 when there
\* is none
CheckResultCol(columns) ==
    IF \E i \in 1..Len(columns) : columns[i] = s_Check_Result
    THEN CHOOSE i \in 1..Len(columns) : columns[i] = s_Check_Result
    ELSE 0

\* df.columns after df['Check Result'] = results: a new last column, or the
\* column of that label kept in its place
OutColumns(columns) ==
    IF CheckResultCol(columns) = 0 THEN Append(columns, s_Check_Result)
    ELSE columns

\* one row of df after df['Check Result'] = results
OutRow(columns, row, status) ==
    IF CheckResultCol(columns) = 0 THEN Append(row, PyStr(status))
    ELSE [row EXCEPT ![CheckResultCol(columns)] = PyStr(status)]

\* df['Check Result'] = results, then to_excel: the data rows of the sheet
Sheet(columns, rows, rs) ==
    [k \in 1..Len(rows) |-> OutRow(columns, rows[k], rs[k])]

\* variant of Fills: worksheet row i+1 where the code has i+2
Fills_off_by_one(cs) ==
    [w \in 1..(Len(cs) + 1) |->
        IF \E i \in 0..(Len(cs) - 1) : i + 1 = w /\ cs[i + 1] # "FFFFFF"
        THEN cs[w]
        ELSE "none"]

\* the fill loop: fills[w] is the fill of worksheet row w (row 1 is the
\* header), "none" where no fill is set
Fills(cs) ==
    [w \in 1..(Len(cs) + 1) |->
        IF \E i \in 0..(Len(cs) - 1) : i + 2 = w /\ cs[i + 1] # "FFFFFF"
        THEN cs[w - 1]
        ELSE "none"]

Reject(code, body) ==
    [code |-> code, body |-> body, columns |-> <<>>, sheet |-> <<>>,
     fills |-> <<>>]

\* the characters openpyxl refuses in a cell's str value
\* (ILLEGAL_CHARACTERS_RE: 0x00-0x08, 0x0B, 0x0C, 0x0E-0x1F; written raw,
\* 0x00 left out as no character of the model)
IllegalCharacters ==
    {"", "", "", "", "", "", "", "", "", "", "", "", "", "", "", "", "", "", "", "", "", "", "", "", "", "", "", "\f"}

HasIllegalCharacter(s) == \E i \in 1..Len(s) : s[i] \in IllegalCharacters

\* df.to_excel raises IllegalCharacterError: a header or a str cell of df
\* holds a character the worksheet refuses
WriteRaises(columns, sheet) ==
    \/ \E i \in 1..Len(columns) : HasIllegalCharacter(columns[i])
    \/ \E k \in 1..Len(sheet) : \E i \in 1..Len(sheet[k]) :
         sheet[k][i].t = "str" /\ HasIllegalCharacter(sheet[k][i].s)

\* the handler returns before the row loop: no file part, no file name, or
\* the upload cannot be read
ReturnsEarly(req) ==
    \/ ~req.hasFile
    \/ req.filename = ""
    \/ UploadReadRaises(req.filename, req.file)

\* results and colors when the handler ends
UploadLists(req, r) ==
    IF ReturnsEarly(req) THEN [results |-> <<>>, colors |-> <<>>]
    ELSE ClassifyRows(DetectColumns(req.file.table.columns),
                      req.file.table.rows, 1, req.mode, r,
                      [results |-> <<>>, colors |-> <<>>])

\* what the ExcelWriter block makes of df and the two lists: the workbook,
\* or the 500 of the exception that leaves the handler
WriteWorkbook(columns, sheet, fills) ==
    IF WriteRaises(columns, sheet) THEN Reject(500, "Internal Server Error")
    ELSE [code |-> 200, body |-> "checked_list.xlsx", columns |-> columns,
          sheet |-> sheet, fills |-> fills]

\* the response of upload_file, done being its results and colors
UploadResponse(req, done) ==
    IF ~req.hasFile THEN Reject(400, "No file uploaded")
    ELSE IF req.filename = "" THEN Reject(400, "No file selected")
    ELSE IF UploadReadRaises(req.filename, req.file)
    THEN Reject(500, "Error reading file")
    ELSE WriteWorkbook(OutColumns(req.file.table.columns),
                       Sheet(req.file.table.columns, req.file.table.rows,
                             done.results),
                       Fills(done.colors))

\* upload_file, given its two lists
UploadOutcome(req, r, done) ==
    [refs |-> r, response |-> UploadResponse(req, done),
     results |-> done.results, colors |-> done.colors]

\* variant of upload_file: the handler records the names it has seen
upload_file_remembers(req, r) ==
    [UploadOutcome(req, r, UploadLists(req, r)) EXCEPT
       !.refs = [r EXCEPT !.xclient_names =
                   @ \cup {user_name(DetectColumns(req.file.table.columns),
                                     req.file.table.rows[k]) :
                             k \in 1..Len(req.file.table.rows)}]]

\* upload_file: the response, the two lists, and the module's four sets as
\* it leaves them
upload_file(req, r) == UploadOutcome(req, r, UploadLists(req, r))

(***************************************************************************)
(* Bounded inputs                                                          *)
(***************************************************************************)
EmptyTable == [columns |-> <<>>, rows |-> <<>>]
Missing == [exists |-> FALSE, parse |-> "fail", table |-> EmptyTable]
Corrupt == [exists |-> TRUE, parse |-> "fail", table |-> EmptyTable]

\* contents a reference file may have: the encoding of its text form and
\* its table
RefContents ==
    { [enc |-> "latin1",
       table |-> [columns |-> <<h_Naam, h_Huidig_Bedrijf>>,
                  rows |-> << <<PyStr(c_Jane), NaN>>,
                              <<PyStr(c_Bob), PyStr(c_Acme)>> >>]],
      [enc |-> "utf-8",
       table |-> [columns |-> <<h_First_Name, h_Last_Name, h_Company,
                                h_company_sp>>,
                  rows |-> << <<PyStr(c_Al), PyStr(c_Smith), PyStr(c_Zed),
                                PyStr(c_Zed)>>,
                              <<PyStr(c_Bob), PyStr(c_DOE), PyStr(c_Zed),
                                PyStr(c_Zed)>> >>]] }

FileOptions(filename) ==
    {Missing, Corrupt}
    \cup {[exists |-> TRUE,
           parse |-> IF EndsWithCsv(filename) THEN c.enc ELSE "excel",
           table |-> c.table] : c \in RefContents}

AllFileOptions == UNION {FileOptions(f) : f \in Filenames}

\* the files of the folder; no file exists when the folder does not
Disks(folderExists) ==
    IF ~folderExists THEN {[f \in Filenames |-> Missing]}
    ELSE {d \in [Filenames -> AllFileOptions] :
            /\ \A f \in Filenames : d[f] \in FileOptions(f)
            /\ Cardinality({f \in Filenames : d[f].exists}) <= MaxPresent}

\* the people uploaded rows are about: one cell per raw header
Persons ==
    { [first |-> PyStr(c_Jane), last |-> NaN, naam |-> PyStr(c_Bob),
       achternaam |-> PyStr(c_Smith), company |-> PyStr(c_Zed),
       email |-> PyStr(c_Acme), phone |-> PyStr(c_jane)],
      [first |-> PyStr(c_Al), last |-> NaN, naam |-> PyStr(c_jane),
       achternaam |-> PyStr(c_DOE), company |-> PyStr(c_ACME),
       email |-> PyStr(c_Acme_vt), phone |-> NaN] }

PersonCell(p, h) ==
    CASE h = h_First_Name -> p.first
      [] h = h_Last_Name  -> p.last
      [] h \in {h_Naam, h_naam} -> p.naam
      [] h = h_Achternaam -> p.achternaam
      [] h = h_Company    -> p.company
      [] h = h_Email      -> p.email
      [] OTHER            -> p.phone

UploadColumns ==
    { <<h_First_Name, h_Last_Name, h_Company>>,
      <<h_naam, h_First_Name, h_Last_Name>>,
      <<h_Naam, h_Company>>,
      <<h_Naam, s_Check_Result, h_Company>>,
      <<h_Email, h_Phone>>,
      <<h_Email, h_Company>>,
      <<h_Achternaam, h_Last_Name, h_First_Name>> }

\* the disks on which only the first file of each group may exist
FirstFiles == {IMNEO_FILES[1], XCLIENT_FILES[1]}
FirstFileDisks(folderExists) ==
    {d \in Disks(folderExists) : \A f \in Filenames \ FirstFiles : ~d[f].exists}

PersonSeqs == UNION {[1..n -> Persons] : n \in 0..MaxRows}

UploadTables ==
    {[columns |-> cols,
      rows |-> [k \in 1..Len(ps) |->
                  [i \in 1..Len(cols) |-> PersonCell(ps[k], cols[i])]]] :
        cols \in UploadColumns, ps \in PersonSeqs}

Modes == {"candidate", "client", NoMode}

NoFile == [parse |-> "fail", table |-> EmptyTable]

Requests ==
    {[hasFile |-> FALSE, filename |-> "", file |-> NoFile, mode |-> NoMode],
     [hasFile |-> TRUE, filename |-> "", file |-> NoFile, mode |-> NoMode]}
    \cup {[hasFile |-> TRUE, filename |-> n, file |-> NoFile, mode |-> NoMode] :
            n \in {"list.csv", "list.xlsx"}}
    \cup {[hasFile |-> TRUE, filename |-> "list.csv",
           file |-> [parse |-> e, table |-> t], mode |-> m] :
            e \in {"utf-8", "latin1"}, t \in UploadTables, m \in Modes}
    \cup {[hasFile |-> TRUE, filename |-> "list.xlsx",
           file |-> [parse |-> "excel", table |-> t], mode |-> m] :
            t \in UploadTables, m \in Modes}

\* the requests that carry no data row
EmptyRequests == {req \in Requests : Len(req.file.table.rows) = 0}

NoRequest == [hasFile |-> FALSE, filename |-> "", file |-> NoFile, mode |-> NoMode]
NoResponse == Reject(0, "")

Alphabet == {" ", "", "n", "a", "N"}
Texts == {None, NaN}
         \cup {PyStr(s) : s \in UNION {[1..n -> Alphabet] : n \in 0..MaxLen}}

(***************************************************************************)
(* The program: module import, then upload requests                        *)
(***************************************************************************)
Refs == [imneo_names |-> imneo_names, imneo_companies |-> imneo_companies,
         xclient_names |-> xclient_names,
         xclient_companies |-> xclient_companies]

\* process start; firstOnly restricts the disk to the first file of each group
InitOn(firstOnly) ==
    /\ phase = "import"
    /\ render \in BOOLEAN
    /\ folder \in BOOLEAN
    /\ disk \in IF firstOnly THEN FirstFileDisks(folder) ELSE Disks(folder)
    /\ imneo_names = {} /\ imneo_companies = {}
    /\ xclient_names = {} /\ xclient_companies = {}
    /\ request = NoRequest
    /\ response = NoResponse
    /\ results = <<>> /\ colors = <<>>
    /\ text = None
    /\ normalized = <<>>

\* the module-level "LOAD DATABASES ON STARTUP" block
Startup ==
    /\ phase = "import"
    /\ LET load == ~render \/ folder
           imneo == load_database_set(IMNEO_FILES, folder, disk)
           xclient == load_database_set(XCLIENT_FILES, folder, disk)
       IN  /\ imneo_names' = IF load THEN imneo.names ELSE {}
           /\ imneo_companies' = IF load THEN imneo.companies ELSE {}
           /\ xclient_names' = IF load THEN xclient.names ELSE {}
           /\ xclient_companies' = IF load THEN xclient.companies ELSE {}
    /\ phase' = "serving"
    /\ UNCHANGED <<render, folder, disk, request, response, results, colors,
                   text, normalized>>

\* POST /upload, for a request of the set reqs
UploadOf(reqs) ==
    /\ phase = "serving"
    /\ \E req \in reqs :
         \E out \in {upload_file(req, Refs)} :
             /\ request' = req
             /\ response' = out.response
             /\ results' = out.results
             /\ colors' = out.colors
             /\ imneo_names' = out.refs.imneo_names
             /\ imneo_companies' = out.refs.imneo_companies
             /\ xclient_names' = out.refs.xclient_names
             /\ xclient_companies' = out.refs.xclient_companies
    /\ phase' = "responded"
    /\ UNCHANGED <<render, folder, disk, text, normalized>>

\* the response has left and the request is over; requests are handled one
\* at a time
Sent ==
    /\ phase = "responded"
    /\ phase' = "serving"
    /\ request' = NoRequest
    /\ response' = NoResponse
    /\ results' = <<>> /\ colors' = <<>>
    /\ UNCHANGED <<render, folder, disk, refs, text, normalized>>

\* the classifier at work: the first file of each group, every request
Init == InitOn(TRUE)
Upload == UploadOf(Requests)
Next == Startup \/ Upload \/ Sent
Spec == Init /\ [][Next]_vars

\* the builder at work: up to MaxPresent files of any name, requests without
\* data rows
InitLoad == InitOn(FALSE)
UploadEmpty == UploadOf(EmptyRequests)
NextLoad == Startup \/ UploadEmpty \/ Sent
SpecLoad == InitLoad /\ [][NextLoad]_vars

(***************************************************************************)
(* normalize_text on its own: a call, and its result fed back as the next  *)
(* argument                                                                *)
(***************************************************************************)
InitNorm ==
    /\ phase = "call"
    /\ text \in Texts
    /\ normalized = <<>>
    /\ render = FALSE /\ folder = FALSE
    /\ disk = [f \in Filenames |-> Missing]
    /\ imneo_names = {} /\ imneo_companies = {}
    /\ xclient_names = {} /\ xclient_companies = {}
    /\ request = NoRequest
    /\ response = NoResponse
    /\ results = <<>> /\ colors = <<>>

NormCall ==
    /\ phase = "call"
    /\ normalized' = normalize_text(text)
    /\ phase' = "returned"
    /\ UNCHANGED <<render, folder, disk, refs, request, response, results,
                   colors, text>>

NormFeedBack ==
    /\ phase = "returned"
    /\ text' = PyStr(normalized)
    /\ phase' = "call"
    /\ UNCHANGED <<render, folder, disk, refs, request, response, results,
                   colors, normalized>>

NextNorm == NormCall \/ NormFeedBack

SpecNorm == InitNorm /\ [][NextNorm]_vars

(***************************************************************************)
(* Properties                                                              *)
(***************************************************************************)
\* the handler got to its row loop; a workbook was sent
Classified == phase = "responded" /\ ~ReturnsEarly(request)
Served == phase = "responded" /\ response.code = 200

Table == request.file.table
NRows == Len(Table.rows)
Cols == DetectColumns(Table.columns)

\* the keys of one row and the groups they are in
KeysIn(name, company) ==
    [name |-> name, company |-> company,
     imneo |-> \/ name # <<>> /\ name \in imneo_names
               \/ company # <<>> /\ company \in imneo_companies,
     xclient |-> \/ name # <<>> /\ name \in xclient_names
                 \/ company # <<>> /\ company \in xclient_companies]
RowKeysOf(cols, row) == KeysIn(user_name(cols, row), user_company(cols, row))
RowKeys(k) == RowKeysOf(Cols, Table.rows[k])

\* what the output shows for input row k: its status and its row's fill
CheckResult(k) == response.sheet[k][CheckResultCol(response.columns)].s
Shown(k) == [status |-> CheckResult(k), fill |-> response.fills[k + 1]]

WhiteAsNone(color) == IF color = "FFFFFF" THEN "none" ELSE color

\* row k got this status and colour, and the workbook, when one was sent,
\* shows them
Outcome(k, status, color) ==
    /\ results[k] = status
    /\ colors[k] = color
    /\ Served => Shown(k) = [status |-> status, fill |-> WhiteAsNone(color)]

\* C1: a row whose non-empty name is in the IMNEO names, or whose non-empty
\* company is in the IMNEO companies, gets 'IMNEO Match (Restricted)' and a
\* FF0000 fill, whatever the mode and whether or not it matches X-CLIENT.
C1_Precedence ==
    Classified =>
      \A k \in 1..NRows :
        RowKeys(k).imneo => Outcome(k, s_IMNEO_Match, "FF0000")

\* C1 witness: a served row that matches both groups
C1_Witness ==
    /\ Served
    /\ \E k \in 1..NRows : \E m \in {RowKeys(k)} : m.imneo /\ m.xclient

\* C2: a row that matches X-CLIENT and not IMNEO gets 'X-Client Match
\* (Candidate Mode)' and FF0000 when mode is 'candidate', and 'X-Client Match
\* (Client/Relation)' and FFFF00 for every other mode, a missing one included.
C2_ModeSensitivity ==
    Classified =>
      \A k \in 1..NRows : \A m \in {RowKeys(k)} :
        (m.xclient /\ ~m.imneo) =>
          IF request.mode = "candidate"
          THEN Outcome(k, s_XClient_Candidate, "FF0000")
          ELSE Outcome(k, s_XClient_Relation, "FFFF00")

\* C2 witness: an X-CLIENT-only row served with the mode field missing
C2_Witness ==
    /\ Served
    /\ request.mode = NoMode
    /\ \E k \in 1..NRows : \E m \in {RowKeys(k)} : m.xclient /\ ~m.imneo

\* C3: normalize_text applied to its own result returns that result, and
\* None, 'NaN' and '' all normalize to the empty string.
C3_Idempotent ==
    phase = "returned" =>
      /\ normalize_text(PyStr(normalized)) = normalized
      /\ text \in {None, PyStr(<<"N","a","N">>), PyStr(<<>>)}
           => normalized = <<>>

\* the rows of a file, loaded on their own
FileLoad(file) ==
    LoadRows(NormalizeColumns(file.table.columns), file.table.rows, 1,
             [names |-> {}, companies |-> {}, raised |-> FALSE])

\* reading the file or processing one of its rows raises
FileFails(filename) ==
    /\ disk[filename].exists
    /\ ReadRaises(filename, disk[filename]) \/ FileLoad(disk[filename]).raised

GoodFiles(filenames) ==
    {filenames[i] : i \in 1..Len(filenames)}
    \ {f \in Filenames : ~disk[f].exists \/ FileFails(f)}

\* C4: after startup with the folder present, each set of a group is the
\* union of what the group's files that did not fail contribute; a file that
\* fails, at any point, contributes nothing.
C4_FailureIsolation ==
    (phase # "import" /\ folder) =>
      /\ imneo_names = UNION {FileLoad(disk[f]).names : f \in GoodFiles(IMNEO_FILES)}
      /\ imneo_companies =
           UNION {FileLoad(disk[f]).companies : f \in GoodFiles(IMNEO_FILES)}
      /\ xclient_names =
           UNION {FileLoad(disk[f]).names : f \in GoodFiles(XCLIENT_FILES)}
      /\ xclient_companies =
           UNION {FileLoad(disk[f]).companies : f \in GoodFiles(XCLIENT_FILES)}

\* C5: the handler computes one status and one colour per input row, in
\* input order, each from its row alone; the workbook it sends has one data
\* row per input row, in input order, entry k of 'Check Result' is the status
\* of input row k, the colour of input row k fills worksheet row k+1, and the
\* header row is never filled.
C5_OrderPreserved ==
    /\ Classified =>
          /\ Len(results) = NRows
          /\ Len(colors) = NRows
          /\ \A k \in 1..NRows :
               \A alone \in {ClassifyRow(Cols, Table.rows[k], request.mode, Refs)} :
                 results[k] = alone.status /\ colors[k] = alone.color
    /\ Served =>
          /\ Len(response.sheet) = NRows
          /\ Len(response.fills) = NRows + 1
          /\ response.fills[1] = "none"
          /\ \A k \in 1..NRows :
               /\ Len(response.sheet[k]) = Len(response.columns)
               /\ \A i \in 1..Len(Table.columns) :
                    Table.columns[i] # s_Check_Result
                      => /\ response.columns[i] = Table.columns[i]
                         /\ response.sheet[k][i] = Table.rows[k][i]
               /\ CheckResult(k) = results[k]
               /\ response.fills[k + 1] = WhiteAsNone(colors[k])

\* C5 witness: two different rows served with different statuses, the first
\* one left white
C5_Witness ==
    /\ Served
    /\ NRows = 2
    /\ Table.rows[1] # Table.rows[2]
    /\ CheckResult(1) = s_Safe
    /\ CheckResult(2) # s_Safe

ClassifierAliases ==
    FirstNameAliases \cup LastNameAliases \cup Range(possible_company_headers)

NoAliasColumn ==
    \A i \in 1..Len(Table.columns) :
      Strip(Lower(Table.columns[i])) \notin ClassifierAliases

\* C6: when no header of the upload is a first-name, last-name or company
\* alias, every row is 'Safe' and white, whatever the sets and the mode.
C6_MissingColumns ==
    (Classified /\ NoAliasColumn) =>
      \A k \in 1..NRows : Outcome(k, s_Safe, "FFFFFF")

\* C6 witness: such a table served while one of its cells, normalized, is a
\* key of a reference set
C6_Witness ==
    /\ Served
    /\ NoAliasColumn
    /\ \E k \in 1..NRows : \E i \in 1..Len(Table.columns) :
         normalize_text(Table.rows[k][i])
           \in (imneo_names \cup imneo_companies
                \cup xclient_names \cup xclient_companies)

\* C7: with no reference folder at startup, on either branch of the startup
\* guard, the four sets are empty after startup and every uploaded row is
\* 'Safe'.
C7_FailOpen ==
    (phase # "import" /\ ~folder) =>
      /\ imneo_names = {} /\ imneo_companies = {}
      /\ xclient_names = {} /\ xclient_companies = {}
      /\ Classified => \A k \in 1..NRows : Outcome(k, s_Safe, "FFFFFF")

\* C7 witness: no folder, RENDER set, and a row with a name and a company
\* served
C7_Witness ==
    /\ Served
    /\ ~folder
    /\ render
    /\ \E k \in 1..NRows : \E m \in {RowKeys(k)} :
         m.name # <<>> /\ m.company # <<>>

\* the name key of section 4.1 applied to a row: a missing column makes only
\* its own component empty
ComponentName(cols, row) ==
    Strip((IF cols.first # 0 THEN normalize_text(row[cols.first]) ELSE <<>>)
          \o <<" ">>
          \o (IF cols.last # 0 THEN normalize_text(row[cols.last]) ELSE <<>>))

\* C8: the name key of a row is trim(normalize(first) + ' ' + normalize(last))
\* with only a missing column's component empty, and a row whose such key is
\* in the IMNEO or X-CLIENT names is classified as a match.
C8_KeyDerivation ==
    Served =>
      \A k \in 1..NRows : \A n \in {ComponentName(Cols, Table.rows[k])} :
        /\ RowKeys(k).name = n
        /\ (n # <<>> /\ n \in (imneo_names \cup xclient_names))
             => CheckResult(k) # s_Safe

\* the column of the highest alias, in the order given, that some header
\* matches; among the columns of that alias, the first
PriorityColumn(columns, aliases) ==
    LET found == {k \in 1..Len(aliases) : NextColumnIn(columns, {aliases[k]}) # 0}
    IN  IF found = {} THEN 0
        ELSE NextColumnIn(columns,
               {aliases[CHOOSE k \in found : \A m \in found : k <= m]})

\* C9: the first-name column used is the one of the highest alias in the
\* order 'first name' > 'voor naam' > 'naam', and the last-name column the
\* one of the highest in 'last name' > 'achternaam', whatever the column order.
C9_AliasPriority ==
    Served =>
      /\ Cols.first = PriorityColumn(Table.columns,
                                     <<s_first_name, s_voor_naam, s_naam>>)
      /\ Cols.last = PriorityColumn(Table.columns,
                                    <<s_last_name, s_achternaam>>)

\* C10: once startup is over, no step changes any of the four reference
\* sets, whatever upload requests are handled.
C10_ReadOnly == [][phase # "import" => refs' = refs]_vars

\* C10 witness: an upload has been served against non-empty sets
C10_Witness ==
    /\ Served
    /\ NRows > 0
    /\ imneo_names # {}
    /\ xclient_companies # {}

====
